---- MODULE Spec2Model ----
(***************************************************************************)
(* Cosmic Courier (src/cosmic_courier.py): the turn loop of game_loop, the *)
(* turn-start phases (handle_events, apply_interest, mission completion,   *)
(* win / debt / stranding checks) and the command handlers (travel, buy,   *)
(* sell, refuel, shipyard, mission board, repay).                          *)
(*                                                                         *)
(* Numbers: the code's floats (modifiers, noise factors, rates) are        *)
(* rationals <<n, d>> with d > 0; int(x) is truncation toward zero.        *)
(* Text input is a pair <<kind, n>>: <<"int", n>> for text that int()      *)
(* parses to n, <<"empty", 0>> for the empty string, <<"nan", 0>> for any  *)
(* other text (int() raises ValueError).                                   *)
(***************************************************************************)
EXTENDS Integers, Sequences, FiniteSets, TLC

\* ------------------------------------------------------------------ bounds

\* credits never exceed this in the model (sell and mission rewards that
\* would pass it are not explored)
MaxCredits == 9
\* missions completed in one game (bounds the reputation counters)
MaxMissions == 1
\* largest integer typed at a prompt
MaxInput == 3

\* ------------------------------------------------- configuration instance
\* game_data.json is read once by setup_game; the instance below is a small
\* configuration with the structure the code reads.

StartCredits == 3
WinCredits == 4
MaxDebt == 7
LoanAmount == 5

GameData ==
  [ goods |-> << [name |-> "ore", type |-> "raw", base_price |-> 1, base_stock |-> 2] >>,
    tech_level_modifiers |->
      [ t \in {1, 2} |->
          IF t = 1 THEN [raw |-> <<1, 1>>, tech |-> <<1, 1>>, fuel |-> <<1, 1>>]
                   ELSE [raw |-> <<2, 1>>, tech |-> <<1, 2>>, fuel |-> <<1, 1>>] ],
    planets |-> << [name |-> "P1", tech_level |-> 1, faction |-> "A"],
                   [name |-> "P2", tech_level |-> 2, faction |-> "B"] >>,
    factions |-> <<"A", "B">>,
    travel_options |->
      [ base_fuel_cost_per_unit |-> <<1, 1>>,
        base_fuel_price |-> 1,
        event_trigger_chance |-> <<1, 2>>,
        random_event_chance |-> <<1, 4>> ],
    distance_matrix |->
      [ a \in {"P1", "P2"} |-> [ b \in {"P1", "P2"} |-> IF a = b THEN 0 ELSE 2 ] ],
    events |-> << [name |-> "Ore Rush", duration |-> 2,
                   effects |-> << [type |-> "price_modifier", good_type |-> "raw",
                                   multiplier |-> <<2, 1>>] >>],
                  [name |-> "Pirates", duration |-> 1,
                   effects |-> << [type |-> "travel_risk_modifier", good_type |-> "*",
                                   multiplier |-> <<2, 1>>] >>] >>,
    random_events |-> << [effect |-> [type |-> "fuel_loss", amount |-> <<1, 2>>]] >>,
    mission_templates |-> << [good_types |-> {"raw"}, min_quantity |-> 2,
                              max_quantity |-> 2, reward_multiplier |-> <<1, 1>>] >>,
    ship_upgrades |->
      [ cargo_hold |-> << [size |-> 2, cost |-> 0], [size |-> 3, cost |-> 3] >>,
        fuel_tank  |-> << [capacity |-> 4, cost |-> 0], [capacity |-> 5, cost |-> 3] >>,
        engine     |-> << [efficiency |-> <<1, 1>>, cost |-> 0],
                          [efficiency |-> <<1, 2>>, cost |-> 4] >> ],
    loan_system |-> [interest_rate |-> <<1, 5>>, loan_amount |-> LoanAmount],
    game_goals |-> [win_credits |-> WinCredits, max_debt |-> MaxDebt],
    defaults |-> [player |-> [credits |-> StartCredits, starting_planet |-> "P1"]] ]

\* the sample points of random.uniform a specification explores: price of
\* (0.9, 1.1) in generate_market_data, stock of (0.8, 1.2), fuel of
\* (0.95, 1.05), reward of (0.9, 1.1) in view_mission_board
Noise ==
  [ price |-> { <<9, 10>>, <<11, 10>> }, stock |-> { <<1, 1>> },
    fuel |-> { <<1, 1>> }, reward |-> { <<9, 10>>, <<11, 10>> } ]

\* the midpoints only
Midpoints ==
  [ price |-> { <<1, 1>> }, stock |-> { <<1, 1>> },
    fuel |-> { <<1, 1>> }, reward |-> { <<1, 1>> } ]

\* ----------------------------------------------------------------- helpers

Range(s) == { s[i] : i \in 1..Len(s) }

\* int(n / d) for d > 0: truncation toward zero
Trunc(n, d) == IF n >= 0 THEN n \div d ELSE -((-n) \div d)

RMul(a, b) == << a[1] * b[1], a[2] * b[2] >>

\* the outcomes of random.random() < p for p = <<n, d>>
Chance(p) == IF p[1] <= 0 THEN {FALSE}
             ELSE IF p[1] >= p[2] THEN {TRUE}
             ELSE {TRUE, FALSE}

\* dict.get(k, d)
Get(f, k, d) == IF k \in DOMAIN f THEN f[k] ELSE d

EmptyDict == [ k \in {} |-> 0 ]

RECURSIVE SumOver(_, _)
SumOver(f, S) == IF S = {} THEN 0
                 ELSE LET k == CHOOSE x \in S : TRUE
                      IN  f[k] + SumOver(f, S \ {k})

\* mutant: the last element removed, whatever the index
PopLast(s, i) == SubSeq(s, 1, Len(s) - 1)

RemoveAt(s, i) == SubSeq(s, 1, i - 1) \o SubSeq(s, i + 1, Len(s))

TextInputs == { <<"empty", 0>>, <<"nan", 0>> } \cup { <<"int", n>> : n \in 0..MaxInput }

VARIABLES
  pc,                   \* position in game_loop
  game_data,            \* game_state.game_data
  active_events,        \* game_state.active_events
  credits, debt,        \* player.credits, player.debt
  location,             \* player.location (a planet name)
  display_mode,         \* player.display_mode
  reputation,           \* player.reputation
  current_mission,      \* player.current_mission: <<>> is None, <<m>> a mission
  cargo_hold_level, fuel_tank_level, engine_level,   \* ship levels
  cargo_hold_size, fuel_capacity, engine_efficiency, \* ship stats stored for the levels
  cargo,                \* ship.cargo: a dict good name -> quantity
  fuel,                 \* ship.fuel
  market,               \* planet name -> the planet's Market (prices, stock, fuel_price)
  mission_board,        \* planet name -> planet.mission_board
  last_action_message   \* game_loop's last_action_message: the message's kind

vars == << pc, game_data, active_events, credits, debt, location, display_mode,
           reputation, current_mission, cargo_hold_level, fuel_tank_level,
           engine_level, cargo_hold_size, fuel_capacity, engine_efficiency,
           cargo, fuel, market, mission_board, last_action_message >>

\* the player and ship fields, the markets, boards and events (all of GameState
\* but the static configuration)
gameVars == << active_events, credits, debt, location, display_mode,
               reputation, current_mission, cargo_hold_level, fuel_tank_level,
               engine_level, cargo_hold_size, fuel_capacity, engine_efficiency,
               cargo, fuel, market, mission_board >>

PlanetNames == { p.name : p \in Range(game_data.planets) }
GoodNames == { g.name : g \in Range(game_data.goods) }
PlanetOf(n) == CHOOSE p \in Range(game_data.planets) : p.name = n
GoodOf(n) == CHOOSE g \in Range(game_data.goods) : g.name = n

\* ------------------------------------------------------------------- Ship

\* mutant: the fuel tank's entry looked up at the cargo hold's level
TankStatsAtHoldLevel(hold_level, tank_level, eng_level) ==
  [ cargo_hold_size |-> game_data.ship_upgrades.cargo_hold[hold_level].size,
    fuel_capacity |-> game_data.ship_upgrades.fuel_tank[hold_level].capacity,
    engine_efficiency |-> game_data.ship_upgrades.engine[eng_level].efficiency ]

\* Ship._update_stats_from_levels: the stats the ship stores for its levels
update_stats_from_levels(hold_level, tank_level, eng_level) ==
  [ cargo_hold_size |-> game_data.ship_upgrades.cargo_hold[hold_level].size,
    fuel_capacity |-> game_data.ship_upgrades.fuel_tank[tank_level].capacity,
    engine_efficiency |-> game_data.ship_upgrades.engine[eng_level].efficiency ]

\* mutant: the number of goods held for the number of units
CountGoods(c) == Cardinality(DOMAIN c)

get_cargo_count(c) == SumOver(c, DOMAIN c)

\* Ship.add_cargo: the new cargo dict, or the old one when it does not fit
add_cargo(c, good, quantity, hold) ==
  IF get_cargo_count(c) + quantity > hold THEN c
  ELSE [ k \in DOMAIN c \cup {good} |-> IF k = good THEN Get(c, good, 0) + quantity ELSE c[k] ]

\* Ship.remove_cargo: the new cargo dict (unchanged when the good is missing
\* or short); an entry that reaches 0 is deleted
remove_cargo(c, good, quantity) ==
  IF good \notin DOMAIN c \/ c[good] < quantity THEN c
  ELSE IF c[good] - quantity = 0 THEN [ k \in DOMAIN c \ {good} |-> c[k] ]
  ELSE [ c EXCEPT ![good] = c[good] - quantity ]

\* ----------------------------------------------------------------- Market

\* the product of the multipliers of the effects of one event that match
RECURSIVE EffectsProduct(_, _, _)
EffectsProduct(effects, type, good_type) ==
  IF effects = <<>> THEN <<1, 1>>
  ELSE LET e == Head(effects)
           rest == EffectsProduct(Tail(effects), type, good_type)
       IN  IF e.type = type /\ (type = "price_modifier" => e.good_type = good_type)
           THEN RMul(e.multiplier, rest) ELSE rest

\* the product over all the events of a list
RECURSIVE EventsProduct(_, _, _)
EventsProduct(events, type, good_type) ==
  IF events = <<>> THEN <<1, 1>>
  ELSE RMul(EffectsProduct(Head(events).effects, type, good_type),
            EventsProduct(Tail(events), type, good_type))

\* price_modifier of generate_market_data for one good
price_modifier(planet, good, events) ==
  RMul(game_data.tech_level_modifiers[planet.tech_level][good.type],
       EventsProduct(events, "price_modifier", good.type))

GoodPrice(planet, good, events, rf) ==
  LET pm == price_modifier(planet, good, events)
  IN  Trunc(good.base_price * pm[1] * rf[1], pm[2] * rf[2])

GoodStock(planet, good, events, rf) ==
  LET pm == price_modifier(planet, good, events)
      sm == IF pm[1] # 0 THEN << pm[2], pm[1] >> ELSE <<100, 1>>
      stock == Trunc(good.base_stock * sm[1] * rf[1], sm[2] * rf[2])
  IN  IF stock > 0 THEN stock ELSE 0

FuelPrice(planet, rf) ==
  LET fm == game_data.tech_level_modifiers[planet.tech_level].fuel
  IN  Trunc(game_data.travel_options.base_fuel_price * fm[1] * rf[1], fm[2] * rf[2])

\* mutant: the market generated as if no event were active
GeneratedWithoutEvents(planet_name, events, noise) ==
  LET planet == PlanetOf(planet_name)
  IN  { [ prices |-> [ g \in GoodNames |-> GoodPrice(planet, GoodOf(g), <<>>, rf[g][1]) ],
          stock  |-> [ g \in GoodNames |-> GoodStock(planet, GoodOf(g), <<>>, rf[g][2]) ],
          fuel_price |-> FuelPrice(planet, frf) ] :
        rf \in [ GoodNames -> noise.price \X noise.stock ], frf \in noise.fuel }

\* Market.generate_market_data: the markets one call can produce
generate_market_data(planet_name, events, noise) ==
  LET planet == PlanetOf(planet_name)
  IN  { [ prices |-> [ g \in GoodNames |-> GoodPrice(planet, GoodOf(g), events, rf[g][1]) ],
          stock  |-> [ g \in GoodNames |-> GoodStock(planet, GoodOf(g), events, rf[g][2]) ],
          fuel_price |-> FuelPrice(planet, frf) ] :
        rf \in [ GoodNames -> noise.price \X noise.stock ], frf \in noise.fuel }

\* Market.__init__: no prices, no stock
EmptyMarket == [ prices |-> EmptyDict, stock |-> EmptyDict, fuel_price |-> 0 ]

\* ------------------------------------------------------- turn-start phases

\* handle_events, the loop over a copy of the list: snapshot[i] is the i-th
\* event object; live holds <<object index, event>> in list order.  Each
\* object is decremented in place and, at duration <= 0, list.remove drops
\* the first element equal to it.
\* mutant: the loop over the list itself, not over a copy: after a removal
\* the element that moved into the freed place is passed over
RECURSIVE LoopOverTheList(_, _, _)
LoopOverTheList(live, i, n) ==
  IF i > Len(live) THEN live
  ELSE LET dec == [ live EXCEPT ![i] = << live[i][1],
                                          [ live[i][2] EXCEPT !.duration = @ - 1 ] >> ]
           first == CHOOSE k \in 1..Len(dec) :
                      /\ dec[k][2] = dec[i][2]
                      /\ \A j \in 1..(k - 1) : dec[j][2] # dec[i][2]
       IN  IF dec[i][2].duration <= 0
           THEN LoopOverTheList(RemoveAt(dec, first), i + 1, n)
           ELSE LoopOverTheList(dec, i + 1, n)

RECURSIVE ExpireLoop(_, _, _)
ExpireLoop(live, i, n) ==
  IF i > n THEN live
  ELSE LET dec == [ k \in 1..Len(live) |->
                      IF live[k][1] = i
                      THEN << i, [ live[k][2] EXCEPT !.duration = @ - 1 ] >>
                      ELSE live[k] ]
           mine == { k \in 1..Len(dec) : dec[k][1] = i }
           ev == dec[CHOOSE k \in mine : TRUE][2]
           first == CHOOSE k \in 1..Len(dec) :
                      /\ dec[k][2] = ev
                      /\ \A j \in 1..(k - 1) : dec[j][2] # ev
       IN  IF mine = {} THEN ExpireLoop(live, i + 1, n)
           ELSE IF ev.duration <= 0 THEN ExpireLoop(RemoveAt(dec, first), i + 1, n)
           ELSE ExpireLoop(dec, i + 1, n)

ExpireEvents(events) ==
  LET live == ExpireLoop([ k \in 1..Len(events) |-> << k, events[k] >> ], 1, Len(events))
  IN  [ k \in 1..Len(live) |-> live[k][2] ]

\* the draw of handle_events: <<"none", 0>> when random.random() is not below
\* event_trigger_chance, else <<"draw", i>> for the template random.choice returns
EventDraws ==
  LET c == Chance(game_data.travel_options.event_trigger_chance)
  IN  (IF FALSE \in c THEN { <<"none", 0>> } ELSE {})
        \cup (IF TRUE \in c THEN { <<"draw", i>> : i \in 1..Len(game_data.events) } ELSE {})

\* an active event: the fields of its template and, as "object", which dict
\* it is: 0 for a dict of its own, i for the dict of template i itself
EventObject(template, object) ==
  [ f \in DOMAIN template \cup {"object"} |->
      IF f = "object" THEN object ELSE template[f] ]

\* mutant: the template itself put on the active list
SameObject(template) ==
  EventObject(template, CHOOSE i \in 1..Len(game_data.events) :
                          game_data.events[i].name = template.name)

\* new_event.copy(): a dict of its own with the template's fields
copy(template) == EventObject(template, 0)

\* the templates after the countdown of the events of the list: the
\* decrement of an active event that is a template's own dict shows in the
\* template
TemplatesAfterCountdown(events) ==
  [ i \in 1..Len(game_data.events) |->
      IF \E k \in 1..Len(events) : events[k].object = i
      THEN [ game_data.events[i] EXCEPT !.duration = @ - 1 ]
      ELSE game_data.events[i] ]

\* mutant: the append without the name test
AppendEvent(events, template) == Append(events, copy(template))

\* the name test and the append of handle_events
TriggerEvent(events, template) ==
  IF \E k \in 1..Len(events) : events[k].name = template.name
  THEN events
  ELSE Append(events, copy(template))

\* handle_events(game_state) with the given draw
handle_events(events, draw) ==
  LET expired == ExpireEvents(events)
  IN  IF draw[1] = "none" THEN expired
      ELSE TriggerEvent(expired, TemplatesAfterCountdown(events)[draw[2]])

\* n/d rounded to the nearest integer, a tie to the even one (n >= 0, d > 0)
RoundNearest(n, d) ==
  LET q == n \div d
      r == n % d
  IN  IF 2 * r < d THEN q
      ELSE IF 2 * r > d THEN q + 1
      ELSE IF q % 2 = 0 THEN q ELSE q + 1

\* mutant: the interest rounded to the nearest integer
InterestRounded(d) ==
  IF d > 0
  THEN LET rate == game_data.loan_system.interest_rate
       IN  d + RoundNearest(d * rate[1], rate[2])
  ELSE d

\* apply_interest: the new debt
apply_interest(d) ==
  IF d > 0
  THEN LET rate == game_data.loan_system.interest_rate
       IN  d + Trunc(d * rate[1], rate[2])
  ELSE d

\* mutant: the delivery test without the cargo test
AtDestination(mission, loc, c) ==
  loc = mission.destination

\* the test of game_loop before complete_mission
MissionDeliverable(mission, loc, c) ==
  /\ loc = mission.destination
  /\ Get(c, mission.good, 0) >= mission.quantity

\* mutant: the win check without the debt test
WinConditionIgnoringDebt(cr, d) ==
  cr >= game_data.game_goals.win_credits

WinCondition(cr, d) ==
  cr >= game_data.game_goals.win_credits /\ d = 0

\* mutant: the debt check with >= for >
DebtLossAtMax(d) ==
  d >= game_data.game_goals.max_debt

DebtLossCondition(d) ==
  d > game_data.game_goals.max_debt

\* mutant: the stranding check without the cargo test
StrandedWhateverTheCargo(f, cr, c) ==
  f <= 0 /\ cr <= 0

\* mutant: the stranding check with fuel < 0 for fuel <= 0
StrandedBelowZero(f, cr, c) ==
  f < 0 /\ cr <= 0 /\ get_cargo_count(c) = 0

StrandedCondition(f, cr, c) ==
  f <= 0 /\ cr <= 0 /\ get_cargo_count(c) = 0

\* complete_mission: the player's fields after the delivery
complete_mission(mission, cr, rep, c) ==
  [ credits |-> cr + mission.reward,
    reputation |-> [ rep EXCEPT ![mission.faction] = @ + 1 ],
    cargo |-> remove_cargo(c, mission.good, mission.quantity),
    current_mission |-> <<>> ]

\* the win / loss / stranding checks of game_loop, in the code's order: where
\* the loop goes next
\* mutant: the stranding check ahead of the debt check
StrandingBeforeDebt(cr, d, f, c) ==
  IF WinCondition(cr, d) THEN "Won"
  ELSE IF StrandedCondition(f, cr, c) THEN "loan_prompt"
  ELSE IF DebtLossCondition(d) THEN "LostToDebt"
  ELSE "command_prompt"

TurnOutcome(cr, d, f, c) ==
  IF WinCondition(cr, d) THEN "Won"
  ELSE IF DebtLossCondition(d) THEN "LostToDebt"
  ELSE IF StrandedCondition(f, cr, c) THEN "loan_prompt"
  ELSE "command_prompt"

\* ------------------------------------------------------------------- setup

\* setup_game: the player at the starting planet with a full tank, the
\* starting planet's market generated, every other market empty
Setup(config, noise) ==
  /\ pc = "turn_start"
  /\ game_data = config
  /\ active_events = <<>>
  /\ credits = game_data.defaults.player.credits
  /\ debt = 0
  /\ location = game_data.defaults.player.starting_planet
  /\ display_mode = "normal"
  /\ reputation = [ f \in Range(game_data.factions) |-> 0 ]
  /\ current_mission = <<>>
  /\ cargo_hold_level = 1
  /\ fuel_tank_level = 1
  /\ engine_level = 1
  /\ cargo_hold_size = update_stats_from_levels(1, 1, 1).cargo_hold_size
  /\ fuel_capacity = update_stats_from_levels(1, 1, 1).fuel_capacity
  /\ engine_efficiency = update_stats_from_levels(1, 1, 1).engine_efficiency
  /\ cargo = EmptyDict
  /\ fuel = game_data.ship_upgrades.fuel_tank[1].capacity
  /\ \E m \in generate_market_data(game_data.defaults.player.starting_planet, <<>>, noise) :
       market = [ p \in PlanetNames |->
                    IF p = game_data.defaults.player.starting_planet THEN m ELSE EmptyMarket ]
  /\ mission_board = [ p \in PlanetNames |-> <<>> ]
  /\ last_action_message = "Welcome"

\* --------------------------------------------------------------- game_loop

\* the top of the while loop up to the first prompt: handle_events,
\* apply_interest, mission completion, then the win, debt and stranding checks
TurnStart(draw) ==
  /\ pc = "turn_start"
  /\ LET deliver == /\ current_mission # <<>>
                    /\ MissionDeliverable(current_mission[1], location, cargo)
         done == complete_mission(current_mission[1], credits, reputation, cargo)
         cr == IF deliver THEN done.credits ELSE credits
         c  == IF deliver THEN done.cargo ELSE cargo
         d  == apply_interest(debt)
     IN  /\ cr <= MaxCredits
         /\ active_events' = handle_events(active_events, draw)
         /\ debt' = d
         /\ credits' = cr
         /\ cargo' = c
         /\ reputation' = IF deliver THEN done.reputation ELSE reputation
         /\ current_mission' = IF deliver THEN done.current_mission ELSE current_mission
         /\ last_action_message' = IF deliver THEN "Mission complete" ELSE last_action_message
         /\ pc' = TurnOutcome(cr, d, fuel, c)
  /\ game_data' = [ game_data EXCEPT !.events = TemplatesAfterCountdown(active_events) ]
  /\ UNCHANGED << location, display_mode, cargo_hold_level, fuel_tank_level,
                  engine_level, cargo_hold_size, fuel_capacity, engine_efficiency, fuel, market, mission_board >>

\* str.lower() on the answers the model types
Lower(s) == IF s = "Y" THEN "y" ELSE IF s = "N" THEN "n" ELSE s

\* mutant: offer_loan with the loan put on the debt whatever the answer
LoanChargedWhateverTheAnswer(choice) ==
  /\ pc = "loan_prompt"
  /\ debt' = debt + game_data.loan_system.loan_amount
  /\ IF Lower(choice) = "y"
     THEN /\ credits' = credits + game_data.loan_system.loan_amount
          /\ last_action_message' = "Loan accepted"
          /\ pc' = "command_prompt"
     ELSE /\ pc' = "LostToStranding"
          /\ UNCHANGED << credits, last_action_message >>
  /\ UNCHANGED << game_data, active_events, location, display_mode, reputation,
                  current_mission, cargo_hold_level, fuel_tank_level, engine_level, cargo_hold_size, fuel_capacity, engine_efficiency,
                  cargo, fuel, market, mission_board >>

\* offer_loan from its prompt on, and the test of its result in game_loop
LoanAnswer(choice) ==
  /\ pc = "loan_prompt"
  /\ IF Lower(choice) = "y"
     THEN /\ credits' = credits + game_data.loan_system.loan_amount
          /\ debt' = debt + game_data.loan_system.loan_amount
          /\ last_action_message' = "Loan accepted"
          /\ pc' = "command_prompt"
     ELSE /\ pc' = "LostToStranding"
          /\ UNCHANGED << credits, debt, last_action_message >>
  /\ UNCHANGED << game_data, active_events, location, display_mode, reputation,
                  current_mission, cargo_hold_level, fuel_tank_level, engine_level, cargo_hold_size, fuel_capacity, engine_efficiency,
                  cargo, fuel, market, mission_board >>

\* the game states setup_game can build from the configuration in use
NewGames(noise) ==
  LET start == game_data.defaults.player.starting_planet
  IN  { [ active_events |-> <<>>,
          credits |-> game_data.defaults.player.credits,
          debt |-> 0,
          location |-> start,
          display_mode |-> "normal",
          reputation |-> [ f \in Range(game_data.factions) |-> 0 ],
          current_mission |-> <<>>,
          cargo_hold_level |-> 1,
          fuel_tank_level |-> 1,
          engine_level |-> 1,
          cargo_hold_size |-> update_stats_from_levels(1, 1, 1).cargo_hold_size,
          fuel_capacity |-> update_stats_from_levels(1, 1, 1).fuel_capacity,
          engine_efficiency |-> update_stats_from_levels(1, 1, 1).engine_efficiency,
          cargo |-> EmptyDict,
          fuel |-> game_data.ship_upgrades.fuel_tank[1].capacity,
          market |-> [ p \in PlanetNames |-> IF p = start THEN m ELSE EmptyMarket ],
          mission_board |-> [ p \in PlanetNames |-> <<>> ] ] :
        m \in generate_market_data(start, <<>>, noise) }

\* the results of game_loop that end a game
GameEnds == { "Won", "LostToDebt", "LostToStranding" }

\* mutant: "restart" goes on with the game that ended
ResumeGame(choice, noise) ==
  /\ pc \in GameEnds
  /\ IF Lower(choice) = "y"
     THEN pc' = "turn_start" /\ UNCHANGED << game_data, gameVars, last_action_message >>
     ELSE IF Lower(choice) = "n"
     THEN pc' = "Quit" /\ UNCHANGED << game_data, gameVars, last_action_message >>
     ELSE UNCHANGED vars

\* handle_game_end and the loop of __main__: "y" has setup_game build a new
\* GameState from the same configuration and game_loop start on it, "n" ends
\* the program, any other answer is asked again
PlayAgain(choice, noise) ==
  /\ pc \in GameEnds
  /\ IF Lower(choice) = "y"
     THEN /\ pc' = "turn_start"
          /\ last_action_message' = "Welcome"
          /\ UNCHANGED game_data
          /\ \E g \in NewGames(noise) :
               /\ active_events' = g.active_events
               /\ credits' = g.credits
               /\ debt' = g.debt
               /\ location' = g.location
               /\ display_mode' = g.display_mode
               /\ reputation' = g.reputation
               /\ current_mission' = g.current_mission
               /\ cargo_hold_level' = g.cargo_hold_level
               /\ fuel_tank_level' = g.fuel_tank_level
               /\ engine_level' = g.engine_level
               /\ cargo_hold_size' = g.cargo_hold_size
               /\ fuel_capacity' = g.fuel_capacity
               /\ engine_efficiency' = g.engine_efficiency
               /\ cargo' = g.cargo
               /\ fuel' = g.fuel
               /\ market' = g.market
               /\ mission_board' = g.mission_board
     ELSE IF Lower(choice) = "n"
     THEN pc' = "Quit" /\ UNCHANGED << game_data, gameVars, last_action_message >>
     ELSE UNCHANGED vars

\* a handler that returns a message and changes nothing
NoOp(message) ==
  /\ last_action_message' = message
  /\ UNCHANGED gameVars

\* ------------------------------------------------------------------ travel

\* destinations of travel: the planets other than the current one, in list order
destinations ==
  SelectSeq([ i \in 1..Len(game_data.planets) |-> game_data.planets[i].name ],
            LAMBDA n : n # location)

fuel_cost(destination) ==
  LET cpu == game_data.travel_options.base_fuel_cost_per_unit
      eff == engine_efficiency
  IN  Trunc(game_data.distance_matrix[location][destination] * cpu[1] * eff[1],
            cpu[2] * eff[2])

\* mutant: the fuel test with > for >=
MoreThanEnoughFuel(f, cost) == f > cost

\* the fuel test of travel
EnoughFuel(f, cost) == f >= cost

\* event_chance of travel: random_event_chance times every travel_risk_modifier
travel_event_chance(events) ==
  RMul(game_data.travel_options.random_event_chance,
       EventsProduct(events, "travel_risk_modifier", "*"))

\* the fuel lost to the in-transit random event: 0 when none is drawn or the
\* drawn one is no fuel_loss
FuelLosses(events) ==
  LET c == Chance(travel_event_chance(events))
  IN  (IF FALSE \in c THEN {0} ELSE {})
        \cup (IF TRUE \in c
              THEN UNION { IF game_data.random_events[i].effect.type = "fuel_loss"
                           THEN game_data.random_events[i].effect.amount[1] ..
                                game_data.random_events[i].effect.amount[2]
                           ELSE {0} : i \in 1..Len(game_data.random_events) }
              ELSE {})

\* the fuel after the in-transit loss: no floor is applied
LoseFuel(f, loss) == f - loss

\* the largest amount a fuel_loss random event can draw (0 without one)
max_fuel_loss ==
  LET losses == { game_data.random_events[i].effect.amount[2] :
                    i \in { j \in 1..Len(game_data.random_events) :
                              game_data.random_events[j].effect.type = "fuel_loss" } }
  IN  IF losses = {} THEN 0 ELSE CHOOSE m \in losses : \A l \in losses : l <= m

\* travel(game_state): command 1 with the text typed at the destination prompt
Travel(inp, noise) ==
  /\ pc = "command_prompt"
  /\ pc' = "turn_start"
  /\ UNCHANGED game_data
  /\ LET choice == inp[2] - 1
     IN  IF inp[1] # "int" THEN NoOp("Invalid destination choice")
         ELSE IF choice = Len(destinations) THEN NoOp("Travel cancelled")
         ELSE IF ~(0 <= choice /\ choice < Len(destinations))
         THEN NoOp("Invalid destination choice")
         ELSE LET destination == destinations[choice + 1]
                  cost == fuel_cost(destination)
              IN  IF EnoughFuel(fuel, cost)
                  THEN /\ location' = destination
                       /\ \E m \in generate_market_data(destination, active_events, noise) :
                            market' = [ market EXCEPT ![destination] = m ]
                       /\ \E loss \in FuelLosses(active_events) :
                            fuel' = LoseFuel(fuel - cost, loss)
                       /\ last_action_message' = "Traveled"
                       /\ UNCHANGED << active_events, credits, debt, display_mode,
                                       reputation, current_mission, cargo_hold_level,
                                       fuel_tank_level, engine_level, cargo_hold_size, fuel_capacity, engine_efficiency, cargo, mission_board >>
                  ELSE NoOp("Not enough fuel")

\* -------------------------------------------------------------------- buy

\* the goods of a market in the order of its prices dict (the catalog's)
PricedGoods(m) ==
  SelectSeq([ i \in 1..Len(game_data.goods) |-> game_data.goods[i].name ],
            LAMBDA g : g \in DOMAIN m.prices)

tradable_goods(m) == SelectSeq(PricedGoods(m), LAMBDA g : Get(m.stock, g, 0) > 0)

\* mutant: buy_goods without the credits test
BuyRefusalIgnoringCredits(quantity, stock, total_cost, cr, count, hold) ==
  IF quantity > stock THEN "Not enough stock"
  ELSE IF count + quantity > hold THEN "Not enough cargo space"
  ELSE ""

\* the three refusals of buy_goods, in the code's order: "" when it goes through
BuyRefusal(quantity, stock, total_cost, cr, count, hold) ==
  IF quantity > stock THEN "Not enough stock"
  ELSE IF total_cost > cr THEN "Not enough credits to buy"
  ELSE IF count + quantity > hold THEN "Not enough cargo space"
  ELSE ""

\* buy_goods(game_state): command 2 with the texts typed at the good prompt
\* and the quantity prompt
Buy(sel, qty) ==
  /\ pc = "command_prompt"
  /\ pc' = "turn_start"
  /\ UNCHANGED game_data
  /\ LET m == market[location]
         goods == tradable_goods(m)
         choice == sel[2] - 1
     IN  IF goods = <<>> THEN NoOp("No goods to buy")
         ELSE IF sel[1] = "empty" THEN NoOp("No selection made")
         ELSE IF sel[1] = "nan" THEN NoOp("Invalid choice")
         ELSE IF choice = Len(goods) THEN NoOp("Purchase cancelled")
         ELSE IF ~(0 <= choice /\ choice < Len(goods)) THEN NoOp("Invalid choice")
         ELSE IF qty[1] = "empty" THEN NoOp("No quantity entered")
         ELSE IF qty[1] = "nan" THEN NoOp("Invalid quantity")
         ELSE IF qty[2] <= 0 THEN NoOp("Quantity must be positive")
         ELSE LET found_good == goods[choice + 1]
                  price == m.prices[found_good]
                  stock == m.stock[found_good]
                  quantity == qty[2]
                  total_cost == price * quantity
                  refusal == BuyRefusal(quantity, stock, total_cost, credits,
                                        get_cargo_count(cargo), cargo_hold_size)
              IN  IF refusal # "" THEN NoOp(refusal)
                  ELSE /\ credits' = credits - total_cost
                       /\ cargo' = add_cargo(cargo, found_good, quantity, cargo_hold_size)
                       /\ market' = [ market EXCEPT ![location].stock[found_good] = @ - quantity ]
                       /\ last_action_message' = "Bought"
                       /\ UNCHANGED << active_events, debt, location, display_mode, reputation,
                                       current_mission, cargo_hold_level, fuel_tank_level,
                                       engine_level, cargo_hold_size, fuel_capacity, engine_efficiency, fuel, mission_board >>

\* ------------------------------------------------------------------- sell

\* the goods of the cargo the market prices.  The code lists them in the
\* cargo dict's insertion order; the model lists them in catalog order, which
\* only changes the number a good is chosen by.
sellable_goods(c, m) ==
  SelectSeq([ i \in 1..Len(game_data.goods) |-> game_data.goods[i].name ],
            LAMBDA g : g \in DOMAIN c /\ g \in DOMAIN m.prices)

\* mutant: the stock of the good set to the sold quantity, not raised by it
StockSetToSold(stock, good, quantity) ==
  [ g \in DOMAIN stock \cup {good} |-> IF g = good THEN quantity ELSE stock[g] ]

\* market.stock[good] = market.stock.get(good, 0) + quantity
StockAfterSale(stock, good, quantity) ==
  [ g \in DOMAIN stock \cup {good} |->
      IF g = good THEN Get(stock, good, 0) + quantity ELSE stock[g] ]

\* the refusal of sell_goods
SellRefusal(quantity_to_sell, current_quantity) == quantity_to_sell > current_quantity

\* sell_goods(game_state): command 3
Sell(sel, qty) ==
  /\ pc = "command_prompt"
  /\ pc' = "turn_start"
  /\ UNCHANGED game_data
  /\ LET m == market[location]
         goods == sellable_goods(cargo, m)
         choice == sel[2] - 1
     IN  IF DOMAIN cargo = {} THEN NoOp("No cargo to sell")
         ELSE IF goods = <<>> THEN NoOp("Market buys none of the cargo")
         ELSE IF sel[1] = "empty" THEN NoOp("No selection made")
         ELSE IF sel[1] = "nan" THEN NoOp("Invalid choice")
         ELSE IF choice = Len(goods) THEN NoOp("Sale cancelled")
         ELSE IF ~(0 <= choice /\ choice < Len(goods)) THEN NoOp("Invalid choice")
         ELSE IF qty[1] = "empty" THEN NoOp("No quantity entered")
         ELSE IF qty[1] = "nan" THEN NoOp("Invalid quantity")
         ELSE IF qty[2] <= 0 THEN NoOp("Quantity must be positive")
         ELSE LET good_to_sell == goods[choice + 1]
                  price == m.prices[good_to_sell]
                  current_quantity == cargo[good_to_sell]
                  quantity_to_sell == qty[2]
                  total_sale == price * quantity_to_sell
              IN  IF SellRefusal(quantity_to_sell, current_quantity)
                  THEN NoOp("Not enough held")
                  ELSE /\ credits + total_sale <= MaxCredits
                       /\ credits' = credits + total_sale
                       /\ cargo' = remove_cargo(cargo, good_to_sell, quantity_to_sell)
                       /\ market' = [ market EXCEPT ![location].stock =
                                        StockAfterSale(@, good_to_sell, quantity_to_sell) ]
                       /\ last_action_message' = "Sold"
                       /\ UNCHANGED << active_events, debt, location, display_mode, reputation,
                                       current_mission, cargo_hold_level, fuel_tank_level,
                                       engine_level, cargo_hold_size, fuel_capacity, engine_efficiency, fuel, mission_board >>

\* ----------------------------------------------------------------- refuel

\* mutant: refuel_ship without the test of the free tank space
RefuelRefusalIgnoringTank(quantity, needed_fuel, total_cost, cr) ==
  IF total_cost > cr THEN "Not enough credits to refuel" ELSE ""

\* the two refusals of refuel_ship, in the code's order: "" when it goes through
RefuelRefusal(quantity, needed_fuel, total_cost, cr) ==
  IF quantity > needed_fuel THEN "Tank cannot hold that much"
  ELSE IF total_cost > cr THEN "Not enough credits to refuel"
  ELSE ""

\* refuel_ship(game_state): command 4 with the text typed at the amount prompt
Refuel(inp) ==
  /\ pc = "command_prompt"
  /\ pc' = "turn_start"
  /\ UNCHANGED game_data
  /\ LET fuel_price == market[location].fuel_price
         needed_fuel == fuel_capacity - fuel
         quantity == inp[2]
         total_cost == fuel_price * quantity
     IN  IF needed_fuel = 0 THEN NoOp("Tank already full")
         ELSE IF inp[1] # "int" THEN NoOp("Invalid amount")
         ELSE IF quantity <= 0 THEN NoOp("Amount must be positive")
         ELSE IF RefuelRefusal(quantity, needed_fuel, total_cost, credits) # ""
         THEN NoOp(RefuelRefusal(quantity, needed_fuel, total_cost, credits))
         ELSE /\ credits' = credits - total_cost
              /\ fuel' = fuel + quantity
              /\ last_action_message' = "Refueled"
              /\ UNCHANGED << active_events, debt, location, display_mode, reputation,
                              current_mission, cargo_hold_level, fuel_tank_level,
                              engine_level, cargo_hold_size, fuel_capacity, engine_efficiency, cargo, market, mission_board >>

\* --------------------------------------------------------------- shipyard

\* the two refusals of _attempt_upgrade: "" when the upgrade goes through
UpgradeRefusal(current_level, max_level, cr, table) ==
  IF current_level >= max_level THEN "Already at max level"
  ELSE IF cr < table[current_level + 1].cost THEN "Not enough credits for upgrade"
  ELSE ""

\* the level _attempt_upgrade sets
NextLevel(current_level) == current_level + 1

\* _attempt_upgrade(player, ship, component_name, level_attr, upgrade_key)
AttemptUpgrade(upgrade_key) ==
  LET table == game_data.ship_upgrades[upgrade_key]
      current_level == CASE upgrade_key = "cargo_hold" -> cargo_hold_level
                         [] upgrade_key = "fuel_tank" -> fuel_tank_level
                         [] OTHER -> engine_level
      refusal == UpgradeRefusal(current_level, Len(table), credits, table)
  IN  IF refusal # "" THEN NoOp(refusal)
      ELSE /\ credits' = credits - table[current_level + 1].cost
           /\ cargo_hold_level' = IF upgrade_key = "cargo_hold"
                                  THEN NextLevel(current_level) ELSE cargo_hold_level
           /\ fuel_tank_level' = IF upgrade_key = "fuel_tank"
                                 THEN NextLevel(current_level) ELSE fuel_tank_level
           /\ engine_level' = IF upgrade_key = "engine"
                              THEN NextLevel(current_level) ELSE engine_level
           /\ LET stats == update_stats_from_levels(cargo_hold_level', fuel_tank_level',
                                                    engine_level')
              IN  /\ cargo_hold_size' = stats.cargo_hold_size
                  /\ fuel_capacity' = stats.fuel_capacity
                  /\ engine_efficiency' = stats.engine_efficiency
           /\ last_action_message' = "Upgraded"
           /\ UNCHANGED << active_events, debt, location, display_mode, reputation,
                           current_mission, cargo, fuel, market, mission_board >>

\* visit_shipyard(game_state): command 5 with the text typed at its menu
Shipyard(choice) ==
  /\ pc = "command_prompt"
  /\ pc' = "turn_start"
  /\ UNCHANGED game_data
  /\ CASE choice = "1" -> AttemptUpgrade("cargo_hold")
       [] choice = "2" -> AttemptUpgrade("fuel_tank")
       [] choice = "3" -> AttemptUpgrade("engine")
       [] choice = "4" -> NoOp("Exiting shipyard")
       [] OTHER -> NoOp("Invalid choice")

\* ---------------------------------------------------------- mission board

\* the offers one pass of the generation loop can append for a planet: the
\* empty set when the slot is skipped (no matching good or no other planet)
\* mutant: the planet of the board among the destinations
AnyPlanet(planet) == PlanetNames

\* possible_destinations of view_mission_board: the planets other than the board's
possible_destinations(planet) == PlanetNames \ {planet}

SlotOffers(planet, rfs) ==
  UNION { LET template == game_data.mission_templates[t]
              possible_goods == { g \in GoodNames : GoodOf(g).type \in template.good_types }
          IN  { [ origin |-> planet, destination |-> dest, good |-> g, quantity |-> q,
                  reward |-> Trunc(GoodOf(g).base_price * q * template.reward_multiplier[1] * rf[1],
                                   template.reward_multiplier[2] * rf[2]),
                  faction |-> PlanetOf(dest).faction ] :
                g \in possible_goods, dest \in possible_destinations(planet),
                q \in template.min_quantity .. template.max_quantity, rf \in rfs }
          : t \in 1..Len(game_data.mission_templates) }

\* whether some template choice skips the slot
SlotMaySkip(planet) ==
  \E t \in 1..Len(game_data.mission_templates) :
    \/ { g \in GoodNames : GoodOf(g).type \in game_data.mission_templates[t].good_types } = {}
    \/ possible_destinations(planet) = {}

num_missions_to_generate == 3

\* the boards the generation loop can leave after n passes
RECURSIVE GeneratedBoards(_, _, _)
GeneratedBoards(planet, n, rfs) ==
  IF n = 0 THEN { <<>> }
  ELSE LET before == GeneratedBoards(planet, n - 1, rfs)
       IN  { Append(b, o) : b \in before, o \in SlotOffers(planet, rfs) }
             \cup (IF SlotMaySkip(planet) THEN before ELSE {})

\* mutant: the board generated anew at every visit
RegeneratedBoards(planet, board, rfs) ==
  GeneratedBoards(planet, num_missions_to_generate, rfs)

\* the board after the populate step of view_mission_board
EnsuredBoards(planet, board, rfs) ==
  IF board = <<>> THEN GeneratedBoards(planet, num_missions_to_generate, rfs) ELSE { board }

\* view_mission_board(game_state): command 6 with the text typed at its prompt
MissionBoard(inp, noise) ==
  /\ pc = "command_prompt"
  /\ pc' = "turn_start"
  /\ UNCHANGED << game_data, active_events, credits, debt, location, display_mode,
                  reputation, cargo_hold_level, fuel_tank_level, engine_level, cargo_hold_size, fuel_capacity, engine_efficiency,
                  cargo, fuel, market >>
  /\ \E board \in EnsuredBoards(location, mission_board[location], noise.reward) :
       LET choice == inp[2] - 1
           keep(message) == /\ mission_board' = [ mission_board EXCEPT ![location] = board ]
                            /\ current_mission' = current_mission
                            /\ last_action_message' = message
       IN  IF current_mission # <<>> THEN keep("Already have a mission")
           ELSE IF board = <<>> THEN keep("No missions available")
           ELSE IF inp[1] # "int" THEN keep("Invalid input")
           ELSE IF 0 <= choice /\ choice < Len(board)
           THEN /\ SumOver(reputation, DOMAIN reputation) < MaxMissions
                /\ current_mission' = << board[choice + 1] >>
                /\ mission_board' = [ mission_board EXCEPT ![location] = RemoveAt(board, choice + 1) ]
                /\ last_action_message' = "Mission accepted"
           ELSE IF choice = Len(board) THEN keep("Exiting mission board")
           ELSE keep("Invalid choice")

\* ------------------------------------------------------------------ repay

\* mutant: no clamp
NoClamp(amount, d) == amount

\* the clamp of repay_debt
ClampToDebt(amount, d) == IF amount > d THEN d ELSE amount

\* mutant: repay_debt without the test of the credits
RepayWhateverTheCredits(amount, cr) == FALSE

\* the refusal of repay_debt after the clamp
RepayRefusal(amount, cr) == amount > cr

\* repay_debt(game_state): command 7 with the text typed at the amount prompt
Repay(inp) ==
  /\ pc = "command_prompt"
  /\ pc' = "turn_start"
  /\ UNCHANGED game_data
  /\ IF debt = 0 THEN NoOp("No debt to repay")
     ELSE IF inp[1] # "int" THEN NoOp("Invalid amount")
     ELSE IF inp[2] <= 0 THEN NoOp("Amount must be positive")
     ELSE LET amount == ClampToDebt(inp[2], debt)
          IN  IF RepayRefusal(amount, credits) THEN NoOp("Cannot repay that amount")
              ELSE /\ credits' = credits - amount
                   /\ debt' = debt - amount
                   /\ last_action_message' = "Repaid"
                   /\ UNCHANGED << active_events, location, display_mode, reputation,
                                   current_mission, cargo_hold_level, fuel_tank_level,
                                   engine_level, cargo_hold_size, fuel_capacity, engine_efficiency, cargo, fuel, market, mission_board >>

\* ------------------------------------------------- the other command texts

\* mutant: the empty command line asked again without a new turn
NoCommandAsksAgain ==
  /\ pc = "command_prompt"
  /\ pc' = "command_prompt"
  /\ UNCHANGED game_data
  /\ NoOp("No command entered")

\* the empty command line: "continue" with a message
NoCommand ==
  /\ pc = "command_prompt"
  /\ pc' = "turn_start"
  /\ UNCHANGED game_data
  /\ NoOp("No command entered")

\* a command line int() rejects
NonNumericCommand ==
  /\ pc = "command_prompt"
  /\ pc' = "turn_start"
  /\ UNCHANGED game_data
  /\ NoOp("Invalid input")

\* mutant: a number above 10 taken for command 9
InvalidCommandTogglesDisplay ==
  /\ pc = "command_prompt"
  /\ pc' = "turn_start"
  /\ display_mode' = IF display_mode = "normal" THEN "compact" ELSE "normal"
  /\ last_action_message' = "Invalid command number"
  /\ UNCHANGED << game_data, active_events, credits, debt, location, reputation,
                  current_mission, cargo_hold_level, fuel_tank_level, engine_level, cargo_hold_size, fuel_capacity, engine_efficiency,
                  cargo, fuel, market, mission_board >>

\* a number outside 1..10
InvalidCommand ==
  /\ pc = "command_prompt"
  /\ pc' = "turn_start"
  /\ UNCHANGED game_data
  /\ NoOp("Invalid command number")

\* command 8
CheckStatus ==
  /\ pc = "command_prompt"
  /\ pc' = "turn_start"
  /\ UNCHANGED game_data
  /\ NoOp("Status panel refreshed")

\* command 9
ToggleDisplay ==
  /\ pc = "command_prompt"
  /\ pc' = "turn_start"
  /\ display_mode' = IF display_mode = "normal" THEN "compact" ELSE "normal"
  /\ last_action_message' = "Display mode switched"
  /\ UNCHANGED << game_data, active_events, credits, debt, location, reputation,
                  current_mission, cargo_hold_level, fuel_tank_level, engine_level, cargo_hold_size, fuel_capacity, engine_efficiency,
                  cargo, fuel, market, mission_board >>

\* command 10: sys.exit()
Quit ==
  /\ pc = "command_prompt"
  /\ pc' = "Quit"
  /\ UNCHANGED << game_data, gameVars, last_action_message >>

\* ---------------------------------------------------------- specifications

\* the turn-start phases and the loan prompt
Phases ==
  \/ \E draw \in EventDraws : TurnStart(draw)
  \/ \E choice \in {"y", "Y", "n", ""} : LoanAnswer(choice)

\* every command of game_loop
Command(noise) ==
  \/ \E inp \in TextInputs : Travel(inp, noise)
  \/ \E sel \in TextInputs, qty \in TextInputs : Buy(sel, qty)
  \/ \E sel \in TextInputs, qty \in TextInputs : Sell(sel, qty)
  \/ \E inp \in TextInputs : Refuel(inp)
  \/ \E choice \in {"1", "2", "3", "4", "x"} : Shipyard(choice)
  \/ \E inp \in TextInputs : MissionBoard(inp, noise)
  \/ \E inp \in TextInputs : Repay(inp)
  \/ NoCommand
  \/ NonNumericCommand
  \/ InvalidCommand
  \/ CheckStatus
  \/ ToggleDisplay
  \/ Quit

Init == Setup(GameData, Midpoints)

Next == Phases \/ Command(Midpoints)

\* the whole game
Spec == Init /\ [][Next]_vars

\* configurations without galactic events, without in-transit events, with
\* one level of fuel tank and engine
NoEvents(config) == [ config EXCEPT !.travel_options.event_trigger_chance = <<0, 1>> ]
NoRisk(config) == [ config EXCEPT !.travel_options.random_event_chance = <<0, 1>> ]
CargoHoldOnly(config) ==
  [ config EXCEPT !.ship_upgrades.fuel_tank = SubSeq(@, 1, 1),
                  !.ship_upgrades.engine = SubSeq(@, 1, 1) ]

FuelTankOnly(config) ==
  [ config EXCEPT !.ship_upgrades.cargo_hold = SubSeq(@, 1, 1),
                  !.ship_upgrades.engine = SubSeq(@, 1, 1) ]

\* trading: travel, buy, sell, refuel and the shipyard, no galactic events
InitTrade == Setup(FuelTankOnly(NoEvents(GameData)), Midpoints)

NextTrade ==
  \/ Phases
  \/ \E inp \in TextInputs : Travel(inp, Midpoints)
  \/ \E sel \in TextInputs, qty \in TextInputs : Buy(sel, qty)
  \/ \E sel \in TextInputs, qty \in TextInputs : Sell(sel, qty)
  \/ \E inp \in TextInputs : Refuel(inp)
  \/ \E choice \in {"1", "2", "3", "4", "x"} : Shipyard(choice)

SpecTrade == InitTrade /\ [][NextTrade]_vars

\* the turn engine and the debt: travel, buy, sell, the shipyard and repay
InitTurn == Setup(CargoHoldOnly(NoRisk(NoEvents(GameData))), Midpoints)

NextTurn ==
  \/ Phases
  \/ \E inp \in TextInputs : Travel(inp, Midpoints)
  \/ \E sel \in TextInputs, qty \in TextInputs : Buy(sel, qty)
  \/ \E sel \in TextInputs, qty \in TextInputs : Sell(sel, qty)
  \/ \E choice \in {"1", "2", "3", "4", "x"} : Shipyard(choice)
  \/ \E inp \in TextInputs : Repay(inp)

SpecTurn == InitTurn /\ [][NextTurn]_vars

\* a second good in the catalog
TwoGoods(config) ==
  [ config EXCEPT !.goods = Append(@, [name |-> "chips", type |-> "tech",
                                        base_price |-> 2, base_stock |-> 1]) ]

\* missions: travel, buy, sell, the shipyard and the mission board
InitMission == Setup(TwoGoods(CargoHoldOnly(NoRisk(NoEvents(GameData)))), Midpoints)

NextMission ==
  \/ Phases
  \/ \E inp \in TextInputs : Travel(inp, Midpoints)
  \/ \E sel \in TextInputs, qty \in TextInputs : Buy(sel, qty)
  \/ \E sel \in TextInputs, qty \in TextInputs : Sell(sel, qty)
  \/ \E choice \in {"1", "2", "3", "4", "x"} : Shipyard(choice)
  \/ \E inp \in TextInputs : MissionBoard(inp, Midpoints)

SpecMission == InitMission /\ [][NextMission]_vars

\* a game that starts without credits
NoCredits(config) == [ config EXCEPT !.defaults.player.credits = 0 ]

\* galactic events: the event draw of every turn, travel and the status command
InitEvents == Setup(NoCredits(CargoHoldOnly(NoRisk(GameData))), Noise)

NextEvents ==
  \/ Phases
  \/ \E inp \in TextInputs : Travel(inp, Noise)
  \/ CheckStatus

SpecEvents == InitEvents /\ [][NextEvents]_vars

\* missions of one or two units
OneOrTwoUnits(config) ==
  [ config EXCEPT !.mission_templates =
      [ t \in DOMAIN @ |-> [ @[t] EXCEPT !.min_quantity = 1 ] ] ]

\* mission boards: travel, the shipyard and the mission board
InitBoard == Setup(OneOrTwoUnits(CargoHoldOnly(NoRisk(NoEvents(GameData)))), Midpoints)

NextBoard ==
  \/ Phases
  \/ \E inp \in TextInputs : Travel(inp, Midpoints)
  \/ \E choice \in {"1", "2", "3", "4", "x"} : Shipyard(choice)
  \/ \E inp \in TextInputs : MissionBoard(inp, Midpoints)

SpecBoard == InitBoard /\ [][NextBoard]_vars

\* whole games: the commands of SpecTurn and the answer to "Play again?"
NextGame ==
  \/ NextTurn
  \/ \E choice \in {"y", "Y", "n", ""} : PlayAgain(choice, Midpoints)

SpecGame == InitTurn /\ [][NextGame]_vars

\* the command line: galactic events, travel and the commands that need no
\* further input, with the lines game_loop rejects
NextCommands ==
  \/ NextEvents
  \/ NoCommand
  \/ NonNumericCommand
  \/ InvalidCommand
  \/ ToggleDisplay
  \/ Quit

SpecCommands == InitEvents /\ [][NextCommands]_vars

\* markets under galactic events: travel, buy, sell and the shipyard
InitMarket == Setup(CargoHoldOnly(NoRisk(GameData)), Midpoints)

NextMarket ==
  \/ Phases
  \/ \E inp \in TextInputs : Travel(inp, Midpoints)
  \/ \E sel \in TextInputs, qty \in TextInputs : Buy(sel, qty)
  \/ \E sel \in TextInputs, qty \in TextInputs : Sell(sel, qty)
  \/ \E choice \in {"1", "2", "3", "4", "x"} : Shipyard(choice)

SpecMarket == InitMarket /\ [][NextMarket]_vars

\* ------------------------------------------------------------------ claims

\* the fields a turn-start check or a loan answer must leave alone
shipAndWorld == << active_events, location, display_mode, reputation, current_mission,
                   cargo_hold_level, fuel_tank_level, engine_level, cargo_hold_size, fuel_capacity, engine_efficiency, cargo, fuel,
                   market, mission_board >>

\* C1: a turn start (events, interest and mission completion done) ends in
\* Won exactly when credits >= win_credits and debt = 0 then hold, and from
\* Won nothing more happens: no command is dispatched.
C1_WonIffGoalReachedDebtFree ==
  [][ /\ pc = "turn_start" =>
           ( pc' = "Won" <=>
               (credits' >= game_data.game_goals.win_credits /\ debt' = 0) )
      /\ pc # "Won" ]_vars

C1_Witness_Won ==
  /\ pc = "Won"
  /\ credits >= game_data.game_goals.win_credits
  /\ debt = 0
  /\ last_action_message = "Sold"

\* C2: a turn start where the win check does not fire ends in LostToDebt
\* exactly when debt > max_debt (debt = max_debt plays on), and from
\* LostToDebt nothing more happens.
C2_LostIffDebtOverMax ==
  [][ /\ ( /\ pc = "turn_start"
           /\ ~(credits' >= game_data.game_goals.win_credits /\ debt' = 0) ) =>
           ( pc' = "LostToDebt" <=> debt' > game_data.game_goals.max_debt )
      /\ pc # "LostToDebt" ]_vars

C2_Witness_LostToDebt ==
  /\ pc = "LostToDebt"
  /\ debt = game_data.game_goals.max_debt + 1

\* C3: a turn that starts with debt = 0, credits = 0, fuel = 0 and no cargo
\* goes to the loan offer, not to the command prompt; a declined offer ends
\* in LostToStranding; an accepted one adds loan_amount to credits and to
\* debt, changes nothing else and goes on to the command prompt.
C3_StrandedGetsLoanOffer ==
  [][ /\ ( /\ pc = "turn_start"
           /\ debt = 0 /\ credits = 0 /\ fuel = 0 /\ DOMAIN cargo = {} ) =>
           pc' = "loan_prompt"
      /\ \A choice \in {"y", "Y", "n", ""} :
           LoanAnswer(choice) =>
             IF choice \in {"y", "Y"}
             THEN /\ pc' = "command_prompt"
                  /\ credits' = credits + game_data.loan_system.loan_amount
                  /\ debt' = debt + game_data.loan_system.loan_amount
                  /\ UNCHANGED shipAndWorld
             ELSE /\ pc' = "LostToStranding"
                  /\ UNCHANGED gameVars
      /\ pc = "loan_prompt" => pc' \in {"command_prompt", "LostToStranding"}
      /\ pc # "LostToStranding" ]_vars

C3_Witness_LoanAccepted ==
  /\ pc = "command_prompt"
  /\ last_action_message = "Loan accepted"
  /\ credits = game_data.loan_system.loan_amount
  /\ debt = game_data.loan_system.loan_amount
  /\ fuel = 0

\* C5: repay with a typed amount n: nothing changes when n <= 0; else the
\* amount is n clamped down to the debt, nothing changes when that exceeds
\* the credits, and otherwise credits and debt both drop by exactly it,
\* neither below 0.
C5_RepayClampsThenChecksCredits ==
  [][ \A n \in 0..MaxInput :
        Repay(<<"int", n>>) =>
          LET amount == IF n > debt THEN debt ELSE n
          IN  IF n <= 0 \/ amount > credits
              THEN UNCHANGED gameVars
              ELSE /\ credits' = credits - amount
                   /\ debt' = debt - amount
                   /\ credits' >= 0
                   /\ debt' >= 0
                   /\ UNCHANGED shipAndWorld ]_vars

C5_Witness_RepaidInFull ==
  /\ last_action_message = "Repaid"
  /\ pc = "turn_start"
  /\ debt = 0

\* C4: at a turn start a held mission for quantity Q of good X is completed
\* (reward added to credits, reputation of its faction + 1, cargo[X] down by
\* exactly Q, the rest of the cargo kept, current_mission cleared) exactly
\* when the player is at its destination with cargo[X] >= Q; otherwise, and
\* with no mission held, credits, reputation, cargo and current_mission are
\* left as they were.
C4_MissionCompletedIffDeliverable ==
  [][ pc = "turn_start" =>
        IF current_mission = <<>>
        THEN UNCHANGED << credits, reputation, cargo, current_mission >>
        ELSE LET m == current_mission[1]
                 held == IF m.good \in DOMAIN cargo THEN cargo[m.good] ELSE 0
             IN  IF location = m.destination /\ held >= m.quantity
                 THEN /\ credits' = credits + m.reward
                      /\ reputation' = [ reputation EXCEPT ![m.faction] = @ + 1 ]
                      /\ (IF m.good \in DOMAIN cargo' THEN cargo'[m.good] ELSE 0)
                           = held - m.quantity
                      /\ \A g \in (DOMAIN cargo \cup DOMAIN cargo') \ {m.good} :
                           g \in DOMAIN cargo /\ g \in DOMAIN cargo' /\ cargo'[g] = cargo[g]
                      /\ current_mission' = <<>>
                 ELSE UNCHANGED << credits, reputation, cargo, current_mission >> ]_vars

C4_Witness_MissionCompleted ==
  /\ last_action_message = "Mission complete"
  /\ pc = "command_prompt"
  /\ current_mission = <<>>
  /\ \E f \in DOMAIN reputation : reputation[f] = 1

\* C6: in every reachable state the cargo quantities sum to at most the
\* hold size of the current cargo-hold level.
C6_CargoWithinHold ==
  SumOver(cargo, DOMAIN cargo)
    <= game_data.ship_upgrades.cargo_hold[cargo_hold_level].size

C6_Witness_FullHold ==
  /\ SumOver(cargo, DOMAIN cargo) = game_data.ship_upgrades.cargo_hold[cargo_hold_level].size
  /\ cargo_hold_level = 2
  /\ last_action_message = "Bought"

\* C7 as stated: in every reachable state, in-transit fuel_loss events
\* included, 0 <= fuel <= fuel_capacity.
C7_FuelWithinTank ==
  /\ 0 <= fuel
  /\ fuel <= game_data.ship_upgrades.fuel_tank[fuel_tank_level].capacity

\* C7 as amended: fuel never exceeds fuel_capacity; fuel goes down only in a
\* travel, which is made only with fuel >= fuel_cost, so the debit of the
\* cost leaves fuel >= 0; only the in-transit fuel_loss, which has no floor,
\* takes fuel below 0, and never below minus the largest fuel_loss amount.
C7_FuelWithinTankButForFuelLoss ==
  /\ [](fuel <= game_data.ship_upgrades.fuel_tank[fuel_tank_level].capacity)
  /\ [](fuel >= 0 - max_fuel_loss)
  /\ [][ fuel' < fuel =>
           /\ location' # location
           /\ fuel >= fuel_cost(location')
           /\ fuel - fuel_cost(location') >= 0
           /\ fuel' >= fuel - fuel_cost(location') - max_fuel_loss ]_vars

\* a travel whose fuel_loss event left the tank below zero
C7_Witness_FuelBelowZeroAfterTravel ==
  /\ fuel < 0
  /\ last_action_message = "Traveled"
  /\ pc = "turn_start"

\* C8: a buy refused for stock, credits or cargo space, a sell of more than
\* is held, a refuel refused for tank space or credits and an upgrade refused
\* at max level or for credits each leave every field of GameState as it
\* was: a step that changes a field is none of these attempts.
C8_RefusedAttemptChangesNothing ==
  [][ ~(UNCHANGED gameVars) =>
      /\ \A i \in 1..MaxInput, n \in 1..MaxInput :
           LET m == market[location]
               goods == tradable_goods(m)
           IN  ~( /\ i <= Len(goods)
                  /\ \/ n > m.stock[goods[i]]
                     \/ m.prices[goods[i]] * n > credits
                     \/ SumOver(cargo, DOMAIN cargo) + n
                          > game_data.ship_upgrades.cargo_hold[cargo_hold_level].size
                  /\ Buy(<<"int", i>>, <<"int", n>>) )
      /\ \A i \in 1..MaxInput, n \in 1..MaxInput :
           LET goods == sellable_goods(cargo, market[location])
           IN  ~( /\ i <= Len(goods)
                  /\ n > cargo[goods[i]]
                  /\ Sell(<<"int", i>>, <<"int", n>>) )
      /\ \A n \in 1..MaxInput :
           ~( /\ \/ n > game_data.ship_upgrades.fuel_tank[fuel_tank_level].capacity - fuel
                 \/ market[location].fuel_price * n > credits
              /\ Refuel(<<"int", n>>) )
      /\ \A k \in {"1", "2", "3"} :
           LET key == IF k = "1" THEN "cargo_hold" ELSE IF k = "2" THEN "fuel_tank" ELSE "engine"
               level == IF k = "1" THEN cargo_hold_level
                        ELSE IF k = "2" THEN fuel_tank_level ELSE engine_level
               table == game_data.ship_upgrades[key]
           IN  ~( /\ \/ level >= Len(table)
                     \/ credits < table[level + 1].cost
                  /\ Shipyard(k) ) ]_vars

C8_Witness_BuyRefusedForCredits ==
  /\ last_action_message = "Not enough credits to buy"
  /\ pc = "turn_start"
  /\ credits > 0

\* C9: travel to a chosen destination goes through exactly when fuel >=
\* fuel_cost of the route (the player is then at the destination, with at
\* most fuel - fuel_cost left); with fuel < fuel_cost it changes nothing.
C9_TravelIffEnoughFuel ==
  [][ \A i \in 1..MaxInput :
        ( i <= Len(destinations) /\ Travel(<<"int", i>>, Midpoints) ) =>
          LET destination == destinations[i]
          IN  IF fuel >= fuel_cost(destination)
              THEN /\ location' = destination
                   /\ fuel' <= fuel - fuel_cost(destination)
                   /\ last_action_message' = "Traveled"
              ELSE /\ UNCHANGED gameVars
                   /\ last_action_message' = "Not enough fuel" ]_vars

C9_Witness_TravelRefused ==
  /\ last_action_message = "Not enough fuel"
  /\ pc = "turn_start"
  /\ fuel > 0

\* C10: no two active events have the same name, and a turn whose draw has
\* the name of an event still active after the expiry step leaves the list
\* as the expiry step left it.
NoDuplicateNames(events) ==
  \A i, j \in 1..Len(events) : i # j => events[i].name # events[j].name

AfterExpiry(events) ==
  SelectSeq([ k \in 1..Len(events) |-> [ events[k] EXCEPT !.duration = @ - 1 ] ],
            LAMBDA e : e.duration > 0)

C10_NoTwoActiveEventsOfOneName ==
  /\ [] NoDuplicateNames(active_events)
  /\ [][ \A i \in 1..Len(game_data.events) :
           ( /\ \E k \in 1..Len(AfterExpiry(active_events)) :
                  AfterExpiry(active_events)[k].name = game_data.events[i].name
             /\ TurnStart(<<"draw", i>>) )
           => active_events' = AfterExpiry(active_events) ]_vars

C10_Witness_TwoEventsActive ==
  /\ Len(active_events) = 2
  /\ active_events[1].name # active_events[2].name
  /\ pc = "command_prompt"

\* C11: buying N units of a good and then selling N units of it at the same
\* planet, without travelling in between, returns the market's stock of the
\* good to its pre-buy value: a buy of N lowers the stock of the chosen good
\* by exactly N, a sale of N raises it by exactly N, each moves the same N
\* units to or from the cargo, and neither the turn start between the two nor
\* any other command issued at the planet changes its market.
C11_BuyThenSellRestoresStock ==
  [][ LET m == market[location]
          m2 == market'[location]
      IN  /\ pc = "turn_start" => market' = market
          /\ (pc = "command_prompt" /\ location' = location) =>
                /\ \A g \in GoodNames :
                     Get(m2.stock, g, 0) + Get(cargo', g, 0)
                       = Get(m.stock, g, 0) + Get(cargo, g, 0)
                /\ market' # market =>
                     \A sel \in 1..MaxInput, n \in 1..MaxInput :
                       /\ (Buy(<<"int", sel>>, <<"int", n>>) /\ last_action_message' = "Bought") =>
                            LET g == tradable_goods(m)[sel]
                            IN  m2.stock[g] = m.stock[g] - n
                       /\ (Sell(<<"int", sel>>, <<"int", n>>) /\ last_action_message' = "Sold") =>
                            LET g == sellable_goods(cargo, m)[sel]
                            IN  m2.stock[g] = Get(m.stock, g, 0) + n ]_vars

\* everything bought at the starting planet has been sold back there: the
\* stock is again what the market was generated with
C11_Witness_SoldBackWhatWasBought ==
  /\ last_action_message = "Sold"
  /\ pc = "turn_start"
  /\ cargo = EmptyDict
  /\ market[location].stock \in
        { mk.stock : mk \in generate_market_data(location, active_events, Midpoints) }
  /\ \E g \in GoodNames : market[location].stock[g] > 0


\* the sequence s with its i-th element taken out, the others in their order
Without(s, i) == SubSeq(s, 1, i - 1) \o SubSeq(s, i + 1, Len(s))

\* C12: a planet's mission board changes only by the mission-board command
\* issued at that planet: an empty board is populated with at most 3 offers,
\* and a non-empty board is never regenerated, its only change being an
\* acceptance, which takes exactly one mission out of it; so it stays as it
\* is while the player travels away and returns.
C12_BoardFilledWhenEmptyOnlyAcceptanceAlters ==
  [][ \A p \in PlanetNames :
        mission_board'[p] # mission_board[p] =>
          /\ pc = "command_prompt"
          /\ p = location
          /\ location' = location
          /\ last_action_message' \in
               { "Already have a mission", "No missions available", "Invalid input",
                 "Mission accepted", "Exiting mission board", "Invalid choice" }
          /\ Len(mission_board'[p]) <= 3
          /\ mission_board[p] # <<>> =>
               /\ current_mission = <<>>
               /\ \E i \in 1..Len(mission_board[p]) :
                    /\ current_mission' = << mission_board[p][i] >>
                    /\ mission_board'[p] = Without(mission_board[p], i) ]_vars

\* back at the starting planet after a visit to the other one, with the
\* boards of both populated and the first one still complete
C12_Witness_BoardKeptOverRoundTrip ==
  /\ location = game_data.defaults.player.starting_planet
  /\ last_action_message = "Traveled"
  /\ Len(mission_board[location]) = 3
  /\ \E p \in PlanetNames \ {location} : mission_board[p] # <<>>

\* C19: with no current mission, accepting offer i of the planet's board
\* makes that offer the current mission and takes exactly it out of the
\* board, the other offers keeping their order; with a current mission the
\* mission-board command (and every other command) leaves current_mission as
\* it is and takes nothing out of the board; the player never holds more
\* than one mission.
C19_AcceptanceMovesTheChosenOffer ==
  /\ [](Len(current_mission) <= 1)
  /\ [][ pc = "command_prompt" =>
           LET board == mission_board[location]
               board2 == mission_board'[location]
           IN  /\ \A i \in 1..MaxInput :
                    ( /\ MissionBoard(<<"int", i>>, Midpoints)
                      /\ current_mission = <<>>
                      /\ board # <<>>
                      /\ i <= Len(board) ) =>
                      /\ current_mission' = << board[i] >>
                      /\ board2 = Without(board, i)
                      /\ Len(board2) = Len(board) - 1
               /\ (current_mission = <<>> /\ current_mission' # <<>>) =>
                    /\ last_action_message' = "Mission accepted"
                    /\ Len(board2) <= 2
                    /\ board # <<>> => Len(board2) = Len(board) - 1
               /\ current_mission # <<>> =>
                    /\ current_mission' = current_mission
                    /\ Len(board2) >= Len(board)
                    /\ board # <<>> => mission_board' = mission_board ]_vars

\* an accepted offer that differs from the two left on the board
C19_Witness_ChosenOfferTaken ==
  /\ last_action_message = "Mission accepted"
  /\ current_mission # <<>>
  /\ Len(mission_board[location]) = 2
  /\ \A k \in 1..2 : mission_board[location][k] # current_mission[1]

\* a mission as view_mission_board creates them
WellFormedMission(m) ==
  /\ m.origin \in PlanetNames
  /\ m.destination \in PlanetNames
  /\ m.destination # m.origin
  /\ m.quantity > 0
  /\ \E t \in 1..Len(game_data.mission_templates) :
       /\ game_data.mission_templates[t].min_quantity <= m.quantity
       /\ m.quantity <= game_data.mission_templates[t].max_quantity

\* C20: every mission, on a board or held, has the planet of the board it
\* was generated on as origin, a destination other than its origin and a
\* quantity > 0 within its template's [min_quantity, max_quantity]; a held
\* mission is never replaced by another one and the offers on a populated
\* board are never changed, only taken out.
C20_MissionsWellFormedAndUnchanged ==
  /\ [](\A p \in PlanetNames : \A k \in 1..Len(mission_board[p]) :
          WellFormedMission(mission_board[p][k]) /\ mission_board[p][k].origin = p)
  /\ [](current_mission # <<>> => WellFormedMission(current_mission[1]))
  /\ [][ /\ (current_mission # <<>> /\ current_mission' # <<>>) =>
             current_mission' = current_mission
         /\ \A p \in PlanetNames :
              mission_board[p] # <<>> =>
                \/ mission_board'[p] = mission_board[p]
                \/ \E i \in 1..Len(mission_board[p]) :
                     mission_board'[p] = Without(mission_board[p], i) ]_vars

\* a mission carried to another planet than its origin, and a board that
\* offers both quantities of the template's range
C20_Witness_MissionCarriedAway ==
  /\ current_mission # <<>>
  /\ current_mission[1].origin # location
  /\ \E p \in PlanetNames : \E j, k \in 1..Len(mission_board[p]) :
       mission_board[p][j].quantity < mission_board[p][k].quantity

\* the next state is one setup_game builds from the configuration
StateOfNewGame ==
  /\ pc' = "turn_start"
  /\ game_data' = game_data
  /\ \E g \in NewGames(Midpoints) :
       /\ active_events' = g.active_events /\ credits' = g.credits /\ debt' = g.debt
       /\ location' = g.location /\ reputation' = g.reputation
       /\ current_mission' = g.current_mission /\ cargo' = g.cargo /\ fuel' = g.fuel
       /\ cargo_hold_level' = g.cargo_hold_level /\ fuel_tank_level' = g.fuel_tank_level
       /\ engine_level' = g.engine_level /\ market' = g.market
       /\ cargo_hold_size' = g.cargo_hold_size /\ fuel_capacity' = g.fuel_capacity
       /\ engine_efficiency' = g.engine_efficiency
       /\ mission_board' = g.mission_board

\* C13: Won, LostToDebt and LostToStranding are terminal: the game state they
\* are reached in gets no further event advance, interest, mission completion
\* or command, and the game never goes from one of them back to playing or
\* to another of them.  All that follows is the answer to "Play again?":
\* the program ends with the state as it was, or setup_game builds the state
\* of a new game.
C13_EndedGameIsNeverContinued ==
  [][ (pc \in GameEnds) =>
        ( \/ (pc' = "Quit" /\ UNCHANGED << game_data, gameVars, last_action_message >>)
          \/ StateOfNewGame ) ]_vars

\* a won game, left as it was when "Play again?" was answered with no
C13_Witness_WonGameLeftAsItWas ==
  /\ pc = "Quit"
  /\ credits >= game_data.game_goals.win_credits
  /\ debt = 0

\* what the interest step leaves alone when no event and no mission is around
besidesDebt == << credits, location, display_mode, reputation, current_mission,
                 cargo_hold_level, fuel_tank_level, engine_level, cargo_hold_size, fuel_capacity, engine_efficiency, cargo, fuel,
                 market, mission_board >>

\* C14 as stated: at the start of a turn a debt > 0 grows by exactly
\* round(debt * rate), rounded to the nearest integer, and nothing else
\* changes; a debt of 0 stays 0.
C14_InterestIsRoundedToNearest ==
  [][ pc = "turn_start" =>
        /\ debt' = IF debt > 0
                   THEN debt + RoundNearest(debt * game_data.loan_system.interest_rate[1],
                                            game_data.loan_system.interest_rate[2])
                   ELSE debt
        /\ UNCHANGED besidesDebt ]_vars

\* C14 as amended: at the start of a turn a debt > 0 grows by exactly
\* int(debt * rate), the product with its fraction cut off, and nothing
\* else changes; a debt of 0 stays 0.
C14_InterestIsTruncated ==
  [][ pc = "turn_start" =>
        /\ debt' = IF debt > 0
                   THEN debt + ( (debt * game_data.loan_system.interest_rate[1])
                                   \div game_data.loan_system.interest_rate[2] )
                   ELSE debt
        /\ UNCHANGED besidesDebt ]_vars

\* interest was charged on a debt of 4 at the rate of 1/5: 0.8 is cut to 0,
\* where rounding gives 1, and the debt is still 4
C14_Witness_FractionCutOff ==
  /\ pc = "command_prompt"
  /\ last_action_message = "Repaid"
  /\ game_data.loan_system.interest_rate = <<1, 5>>
  /\ debt = 4

\* C15: an empty command line, one that is no number and a number outside
\* the commands each change no field of GameState (and not the configuration).
C15_RejectedCommandChangesNothing ==
  [][ ( \/ NoCommand
        \/ NonNumericCommand
        \/ InvalidCommand
        \/ /\ pc = "command_prompt"
           /\ last_action_message' \in
                { "No command entered", "Invalid input", "Invalid command number" } )
      => UNCHANGED << game_data, gameVars >> ]_vars

\* a command number outside the commands, rejected away from the starting
\* planet while a galactic event is active
C15_Witness_InvalidNumberRejected ==
  /\ last_action_message = "Invalid command number"
  /\ pc = "turn_start"
  /\ location # game_data.defaults.player.starting_planet
  /\ active_events # <<>>

C16_Witness_WonByMissionReward ==
  /\ pc = "Won"
  /\ last_action_message = "Mission complete"

\* the configured duration of the template an active event was made from
NominalDuration(e) ==
  LET i == CHOOSE k \in 1..Len(GameData.events) : GameData.events[k].name = e.name
  IN  GameData.events[i].duration

\* the events a countdown keeps, each with one turn less
Survivors(events) ==
  LET rest == SelectSeq(events, LAMBDA e : e.duration - 1 > 0)
  IN  [ k \in 1..Len(rest) |-> [ rest[k] EXCEPT !.duration = @ - 1 ] ]

\* C17: an event advance takes exactly 1 off the duration of every active
\* event and drops every event that comes to <= 0, before a new event is
\* triggered: the list after the advance is the kept events in their order,
\* each with one turn less, followed by at most one new event; so every
\* active event has a duration >= 1, and an event of duration d is dropped
\* by the d-th advance after the one that created it.
C17_AdvanceCountsEveryEventDownByOne ==
  /\ [](\A k \in 1..Len(active_events) : active_events[k].duration >= 1)
  /\ [][ pc = "turn_start" =>
           LET kept == Survivors(active_events)
           IN  /\ Len(active_events') \in { Len(kept), Len(kept) + 1 }
               /\ SubSeq(active_events', 1, Len(kept)) = kept ]_vars

\* an event in the last turn of a longer duration, alone on the list
C17_Witness_EventCountedDown ==
  /\ pc = "command_prompt"
  /\ Len(active_events) = 1
  /\ active_events[1].duration = 1
  /\ NominalDuration(active_events[1]) > 1

\* C18: an event triggered from a template starts with the template's
\* configured duration, whatever was counted down before: the countdown of
\* the active events never changes a duration in the configured templates.
C18_NewEventHasNominalDuration ==
  [][ pc = "turn_start" =>
        LET kept == Survivors(active_events)
            new_event == active_events'[Len(active_events')]
        IN  /\ game_data'.events = game_data.events
            /\ game_data.events = GameData.events
            /\ Len(active_events') > Len(kept) =>
                 new_event.duration = NominalDuration(new_event) ]_vars

\* an event just triggered at its configured duration next to one that has
\* been counted down below its own
C18_Witness_NewEventBesideCountedDown ==
  /\ pc = "command_prompt"
  /\ Len(active_events) = 2
  /\ active_events[1].duration < NominalDuration(active_events[1])
  /\ active_events[2].duration = NominalDuration(active_events[2])

\* C21: every upgrade level lies in 1..(number of levels of its component)
\* and the stored cargo_hold_size, fuel_capacity and engine_efficiency are
\* the table entries at the current levels; an upgrade that goes through
\* raises the level of exactly the chosen component by exactly 1 and takes
\* exactly the cost of the new level from credits.
C21_StatsFollowLevels ==
  /\ [] /\ cargo_hold_level \in 1..Len(game_data.ship_upgrades.cargo_hold)
        /\ fuel_tank_level \in 1..Len(game_data.ship_upgrades.fuel_tank)
        /\ engine_level \in 1..Len(game_data.ship_upgrades.engine)
        /\ cargo_hold_size = game_data.ship_upgrades.cargo_hold[cargo_hold_level].size
        /\ fuel_capacity = game_data.ship_upgrades.fuel_tank[fuel_tank_level].capacity
        /\ engine_efficiency = game_data.ship_upgrades.engine[engine_level].efficiency
  /\ [][ ( /\ pc = "command_prompt"
           /\ << cargo_hold_level, fuel_tank_level, engine_level >>'
                # << cargo_hold_level, fuel_tank_level, engine_level >> )
         => \E k \in {"1", "2", "3"} :
              LET key == IF k = "1" THEN "cargo_hold"
                         ELSE IF k = "2" THEN "fuel_tank" ELSE "engine"
                  level == IF k = "1" THEN cargo_hold_level
                           ELSE IF k = "2" THEN fuel_tank_level ELSE engine_level
              IN  /\ Shipyard(k)
                  /\ cargo_hold_level' = cargo_hold_level + (IF k = "1" THEN 1 ELSE 0)
                  /\ fuel_tank_level' = fuel_tank_level + (IF k = "2" THEN 1 ELSE 0)
                  /\ engine_level' = engine_level + (IF k = "3" THEN 1 ELSE 0)
                  /\ credits' = credits - game_data.ship_upgrades[key][level + 1].cost ]_vars

\* the fuel tank upgraded: level 2 and the capacity of level 2 stored
C21_Witness_FuelTankUpgraded ==
  /\ last_action_message = "Upgraded"
  /\ fuel_tank_level = 2
  /\ fuel_capacity = game_data.ship_upgrades.fuel_tank[2].capacity
  /\ fuel_capacity > game_data.ship_upgrades.fuel_tank[1].capacity

\* the markets a planet can get under the given events, from the price,
\* stock and fuel formulas
FreshMarkets(p, events) ==
  { [ prices |-> [ g \in GoodNames |->
                     GoodPrice(PlanetOf(p), GoodOf(g), events, rf[g][1]) ],
      stock  |-> [ g \in GoodNames |->
                     GoodStock(PlanetOf(p), GoodOf(g), events, rf[g][2]) ],
      fuel_price |-> FuelPrice(PlanetOf(p), frf) ] :
    rf \in [ GoodNames -> Midpoints.price \X Midpoints.stock ], frf \in Midpoints.fuel }

\* C22: a planet's market is generated anew exactly when the player arrives
\* there by a travel that goes through, from the events active at that
\* moment (and once at setup for the starting planet); between arrivals its
\* prices and fuel price never change and its stock changes only by a buy or
\* a sale there, so an event that begins or ends at a turn start while the
\* player stays leaves the market as it is.
C22_MarketRegeneratedOnArrivalOnly ==
  [][ /\ pc = "turn_start" => market' = market
      /\ location' # location =>
           market'[location'] \in FreshMarkets(location', active_events)
      /\ \A p \in PlanetNames :
           market'[p] # market[p] =>
             /\ pc = "command_prompt"
             /\ p = location'
             /\ location' = location =>
                  /\ market'[p].prices = market[p].prices
                  /\ market'[p].fuel_price = market[p].fuel_price
                  /\ last_action_message' \in {"Bought", "Sold"} ]_vars

\* the price of an event that has ended still stands at the planet the
\* player arrived at while it was active
C22_Witness_PriceOutlivesEvent ==
  /\ pc = "command_prompt"
  /\ active_events = <<>>
  /\ \E g \in GoodNames :
       market[location].prices[g] > GoodPrice(PlanetOf(location), GoodOf(g), <<>>, <<1, 1>>)

\* C23: the loan is offered only when fuel <= 0, credits <= 0 and an empty
\* cargo hold together; a turn that starts (win and debt checks passed) with
\* fuel <= 0 and credits <= 0 but cargo aboard goes on to the command prompt:
\* no loan offer and no LostToStranding, which only a declined offer gives.
C23_NoLoanOfferWithCargoAboard ==
  [][ /\ pc = "turn_start" =>
           /\ pc' = "loan_prompt" =>
                (fuel' <= 0 /\ credits' <= 0 /\ DOMAIN cargo' = {})
           /\ ( /\ fuel' <= 0
                /\ credits' <= 0
                /\ DOMAIN cargo' # {}
                /\ pc' \notin {"Won", "LostToDebt"} ) => pc' = "command_prompt"
      /\ pc' = "LostToStranding" => pc = "loan_prompt" ]_vars

\* out of fuel and out of credits with cargo aboard, at the command prompt
C23_Witness_PlayingWithCargoOnly ==
  /\ pc = "command_prompt"
  /\ fuel <= 0
  /\ credits <= 0
  /\ DOMAIN cargo # {}
  /\ debt = 0

\* C24: the debt grows in two ways only: by the interest charged at the start
\* of a turn on a debt that is already positive, and by the loan amount when
\* the stranding loan is accepted; a debt of 0 becomes positive only by an
\* accepted loan, offered to a player with no fuel, no credits and no cargo.
C24_DebtGrowsByInterestOrLoanOnly ==
  [][ /\ debt' > debt =>
           \/ /\ pc = "turn_start"
              /\ debt > 0
              /\ LET rate == game_data.loan_system.interest_rate
                 IN  debt' = debt + Trunc(debt * rate[1], rate[2])
           \/ /\ pc = "loan_prompt"
              /\ pc' = "command_prompt"
              /\ last_action_message' = "Loan accepted"
              /\ debt' = debt + game_data.loan_system.loan_amount
              /\ credits' = credits + game_data.loan_system.loan_amount
      /\ (debt = 0 /\ debt' > 0) =>
           /\ pc = "loan_prompt"
           /\ pc' = "command_prompt"
           /\ fuel <= 0
           /\ credits <= 0
           /\ DOMAIN cargo = {} ]_vars

\* a debt above the loan amount: the loan taken from a debt of 0, then interest
C24_Witness_LoanGrownByInterest ==
  /\ pc = "command_prompt"
  /\ debt > game_data.loan_system.loan_amount
  /\ debt < game_data.game_goals.max_debt

\* the game with every command that spends credits: buying, refuelling,
\* upgrading and repaying, beside travel
InitSpend == Setup(CargoHoldOnly(NoRisk(NoEvents(GameData))), Midpoints)

NextSpend ==
  \/ Phases
  \/ \E inp \in TextInputs : Travel(inp, Midpoints)
  \/ \E sel \in TextInputs, qty \in TextInputs : Buy(sel, qty)
  \/ \E inp \in TextInputs : Refuel(inp)
  \/ \E choice \in {"1", "2", "3", "4", "x"} : Shipyard(choice)
  \/ \E inp \in TextInputs : Repay(inp)

SpecSpend == InitSpend /\ [][NextSpend]_vars

\* C25: the credits are never negative; they go down only by a purchase, a
\* refuelling, an upgrade or a repayment, and never by more than the player has.
C25_CreditsNeverNegative ==
  /\ [](credits >= 0)
  /\ [][ credits' < credits =>
           /\ pc = "command_prompt"
           /\ last_action_message' \in {"Bought", "Refueled", "Upgraded", "Repaid"}
           /\ credits - credits' <= credits ]_vars

\* a repayment that took every credit the player had, with debt left over
C25_Witness_RepaidWithLastCredits ==
  /\ last_action_message = "Repaid"
  /\ credits = 0
  /\ debt > 0

\* the messages of the commands that change nothing of the game
IdleMessages ==
  { "No command entered", "Invalid input", "Invalid command number",
    "Status panel refreshed", "Display mode switched", "Not enough fuel",
    "Travel cancelled", "Invalid destination choice" }

\* C26: every command read, whatever was typed (nothing, no number, a number
\* that is no command, a cancelled or refused command, status, display
\* toggle), is followed by one run of the turn-start phases: the command goes
\* to the turn start without touching events or debt, the turn start advances
\* the events and charges the interest on a positive debt, and the next
\* command prompt is reached from there only.
C26_PhasesRunOncePerCommandRead ==
  [][ /\ (pc = "command_prompt") =>
           /\ pc' \in {"turn_start", "Quit"}
           /\ debt' = debt
           /\ active_events' = active_events
      /\ (pc = "turn_start") =>
           /\ pc' # "turn_start"
           /\ \E draw \in EventDraws :
                active_events' = handle_events(active_events, draw)
           /\ LET rate == game_data.loan_system.interest_rate
              IN  debt' = IF debt > 0
                          THEN debt + Trunc(debt * rate[1], rate[2])
                          ELSE debt
      /\ (pc = "loan_prompt") =>
           /\ pc' \in {"command_prompt", "LostToStranding"}
           /\ active_events' = active_events
      /\ (pc' = "command_prompt") => pc \in {"turn_start", "loan_prompt"} ]_vars

\* back at the prompt after a command that did nothing, with the debt grown
\* by the interest of the turn start in between
C26_Witness_InterestAfterIdleCommand ==
  /\ pc = "command_prompt"
  /\ last_action_message \in IdleMessages
  /\ debt > game_data.loan_system.loan_amount

====
